---- MODULE Spec2Model ----
(***************************************************************************)
(* AVLSet<ElementType> (src/AVLSet.hpp) as a state machine over an         *)
(* explicit node heap.  A set instance is the triple (_root, _sz,          *)
(* _shouldBalance); nodes are heap cells with left, right, value, height.  *)
(* Elements are integers.                                                  *)
(***************************************************************************)
EXTENDS Integers, Sequences, FiniteSets

\* ---------------------------------------------------------------- bounds
\* Elements offered to add in the lifecycle specification Spec.
MaxVal == 2
\* Elements offered to add in the insertion-only specification AddSpec.
MaxKey == 6
\* Number of heap cells.
HeapSize == 6
\* Nodes the allocator hands out at a time in the lifecycle specification Spec
\* (in AddSpec: HeapSize); an operation that would need more is not taken.
MaxLive == 3
\* Values and live nodes of the specification of rotations on copied, moved
\* and assigned sets.
MaxRotVal == 3
MaxRotLive == 3

Values == 1..MaxVal
Keys == 1..MaxKey
RotValues == 1..MaxRotVal
Nodes == 1..HeapSize
\* The set instances (program variables of type AVLSet<int>).
Sets == {"a", "b"}
NoSet == "-"

\* nullptr
Null == 0

VARIABLES
    heap,           \* heap[n]: the Node object in cell n, or a free cell
    alive,          \* alive[s]: instance s is constructed and not yet destroyed
    _root,          \* _root[s]
    _sz,            \* _sz[s]
    _shouldBalance, \* _shouldBalance[s]
    cap,            \* the number of nodes the allocator can hand out at a time
    fault,          \* "none", or the undefined behaviour the program ran into
    lastOp,         \* the operation that produced this state, with its outputs
    added           \* history: the elements passed to add for the node graph s holds

vars == <<heap, cap, alive, _root, _sz, _shouldBalance, fault, lastOp, added>>

\* ------------------------------------------------------------ arithmetic
Max(x, y) == IF x >= y THEN x ELSE y
Abs(x) == IF x < 0 THEN -x ELSE x
SetMin(S) == CHOOSE x \in S : \A y \in S : x <= y

\* ------------------------------------------------------------------ heap
\* A cell that holds no Node (never allocated, or deleted).
FreeCell == [live |-> FALSE, left |-> Null, right |-> Null, value |-> 0, height |-> 0]

FreeCells(h) == {n \in Nodes : ~h[n].live}

\* The number of nodes that can still be allocated in h.
Room(h, c) == c - Cardinality(Nodes \ FreeCells(h))

\* new Node{l, r, v, ht}: the lowest free cell is the one handed out.
NewNode(h, l, r, v, ht) ==
    LET n == SetMin(FreeCells(h))
    IN [h |-> [h EXCEPT ![n] = [live |-> TRUE, left |-> l, right |-> r,
                                value |-> v, height |-> ht]],
        p |-> n]

\* The cells reachable from t through left/right links (t's subtree).
RECURSIVE Reach(_, _)
Reach(h, t) ==
    IF t = Null THEN {}
    ELSE {t} \cup Reach(h, h[t].left) \cup Reach(h, h[t].right)

\* deleteTree(t): postorder delete of the subtree of t.
RECURSIVE deleteTree(_, _)
deleteTree(h, t) ==
    IF t = Null THEN h
    ELSE LET h1 == IF h[t].left # Null THEN deleteTree(h, h[t].left) ELSE h
             h2 == IF h1[t].right # Null THEN deleteTree(h1, h1[t].right) ELSE h1
         IN [h2 EXCEPT ![t] = FreeCell]

\* A copyTree that hands back the source's own nodes.
copyTree_shallow(h, t) == [h |-> h, p |-> t]

\* copyTree(t): the copy's node is allocated first, then the left subtree is
\* copied, then the right one; value and cached height are taken over.
RECURSIVE copyTree(_, _)
copyTree(h, t) ==
    IF t = Null THEN [h |-> h, p |-> Null]
    ELSE LET c == NewNode(h, Null, Null, h[t].value, h[t].height)
             l == copyTree(c.h, h[t].left)
             hl == [l.h EXCEPT ![c.p].left = l.p]
             r == copyTree(hl, h[t].right)
         IN [h |-> [r.h EXCEPT ![c.p].right = r.p], p |-> c.p]

\* getHeight(t)
getHeight(h, t) == IF t = Null THEN -1 ELSE h[t].height

\* ------------------------------------------------------------- rotations
\* getNeededRotation that never selects a double rotation.
getNeededRotation_single(h, t, element) ==
    IF element < h[t].value THEN "LL" ELSE "RR"

\* getNeededRotation(t, element)
getNeededRotation(h, t, element) ==
    IF element < h[t].value
    THEN IF element < h[h[t].left].value THEN "LL" ELSE "LR"
    ELSE IF element < h[h[t].right].value THEN "RL" ELSE "RR"

\* The pointers getNeededRotation(t, element) dereferences are all present.
selectionDerefsOk(h, t, element) ==
    IF element < h[t].value THEN h[t].left # Null ELSE h[t].right # Null

\* The pointers the rotation r dereferences at t are all present.
rotationDerefsOk(h, t, r) ==
    CASE r = "LL" -> h[t].left # Null
      [] r = "LR" -> h[t].left # Null /\ h[h[t].left].right # Null
      [] r = "RL" -> h[t].right # Null /\ h[h[t].right].left # Null
      [] r = "RR" -> h[t].right # Null

\* rotLL that does not hand the promoted node's right subtree to the demoted
\* node.
rotLL_dropsSubtree(h, t) ==
    LET a == h[t].left
        h1 == [h EXCEPT ![t].left = Null, ![a].right = t]
        h2 == [h1 EXCEPT ![t].height = 1 + Max(-1, getHeight(h1, h1[t].right))]
        h3 == [h2 EXCEPT ![a].height = 1 + Max(getHeight(h2, h2[a].left), getHeight(h2, t))]
    IN [h |-> h3, t |-> a]

rotLL(h, t) ==
    LET a == h[t].left
        t2 == h[a].right
        h1 == [h EXCEPT ![t].left = t2, ![a].right = t]
        h2 == [h1 EXCEPT ![t].height = 1 + Max(getHeight(h1, t2), getHeight(h1, h1[t].right))]
        h3 == [h2 EXCEPT ![a].height = 1 + Max(getHeight(h2, h2[a].left), getHeight(h2, t))]
    IN [h |-> h3, t |-> a]

\* rotLR with the pivot's two subtrees handed to the wrong nodes.
rotLR_crossed(h, t) ==
    LET a == h[t].left
        b == h[a].right
        t2 == h[b].left
        t3 == h[b].right
        h1 == [h EXCEPT ![a].right = t3, ![t].left = t2, ![b].left = a, ![b].right = t]
        h2 == [h1 EXCEPT ![a].height = 1 + Max(getHeight(h1, h1[a].left), getHeight(h1, t3))]
        h3 == [h2 EXCEPT ![t].height = 1 + Max(getHeight(h2, t2), getHeight(h2, h2[t].right))]
        h4 == [h3 EXCEPT ![b].height = 1 + Max(getHeight(h3, a), getHeight(h3, t))]
    IN [h |-> h4, t |-> b]

rotLR(h, t) ==
    LET a == h[t].left
        b == h[a].right
        t2 == h[b].left
        t3 == h[b].right
        h1 == [h EXCEPT ![a].right = t2, ![t].left = t3, ![b].left = a, ![b].right = t]
        h2 == [h1 EXCEPT ![a].height = 1 + Max(getHeight(h1, h1[a].left), getHeight(h1, t2))]
        h3 == [h2 EXCEPT ![t].height = 1 + Max(getHeight(h2, t3), getHeight(h2, h2[t].right))]
        h4 == [h3 EXCEPT ![b].height = 1 + Max(getHeight(h3, a), getHeight(h3, t))]
    IN [h |-> h4, t |-> b]

rotRL(h, t) ==
    LET c == h[t].right
        b == h[c].left
        t2 == h[b].left
        t3 == h[b].right
        h1 == [h EXCEPT ![t].right = t2, ![c].left = t3, ![b].left = t, ![b].right = c]
        h2 == [h1 EXCEPT ![t].height = 1 + Max(getHeight(h1, h1[t].left), getHeight(h1, t2))]
        h3 == [h2 EXCEPT ![c].height = 1 + Max(getHeight(h2, t3), getHeight(h2, h2[c].right))]
        h4 == [h3 EXCEPT ![b].height = 1 + Max(getHeight(h3, t), getHeight(h3, c))]
    IN [h |-> h4, t |-> b]

\* rotRR that leaves the demoted node's cached height as it was.
rotRR_staleHeight(h, t) ==
    LET b == h[t].right
        t2 == h[b].left
        h1 == [h EXCEPT ![t].right = t2, ![b].left = t]
        h3 == [h1 EXCEPT ![b].height = 1 + Max(getHeight(h1, t), getHeight(h1, h1[b].right))]
    IN [h |-> h3, t |-> b]

rotRR(h, t) ==
    LET b == h[t].right
        t2 == h[b].left
        h1 == [h EXCEPT ![t].right = t2, ![b].left = t]
        h2 == [h1 EXCEPT ![t].height = 1 + Max(getHeight(h1, h1[t].left), getHeight(h1, t2))]
        h3 == [h2 EXCEPT ![b].height = 1 + Max(getHeight(h2, t), getHeight(h2, h2[b].right))]
    IN [h |-> h3, t |-> b]

\* rotate(t, r)
rotate(h, t, r) ==
    IF r = "LL" THEN rotLL(h, t)
    ELSE IF r = "LR" THEN rotLR(h, t)
    ELSE IF r = "RL" THEN rotRL(h, t)
    ELSE rotRR(h, t)

\* ------------------------------------------------------------- insertion
\* The height update raising the cached height without comparing it with the
\* recomputed one.
updateHeight_unconditional(h, t) == [h EXCEPT ![t].height = @ + 1]

\* The height update of addR on the way back up: the cached height is raised
\* by one when the recomputed height exceeds it.
updateHeight(h, t) ==
    LET newHeight == 1 + Max(getHeight(h, h[t].left), getHeight(h, h[t].right))
    IN IF newHeight > h[t].height THEN [h EXCEPT ![t].height = @ + 1] ELSE h

\* The rebalancing step without the test of _shouldBalance.
rebalance_ignoresFlag(h, t, element, bal, rots) ==
    IF Abs(getHeight(h, h[t].left) - getHeight(h, h[t].right)) > 1
    THEN LET r == getNeededRotation(h, t, element)
             rr == rotate(h, t, r)
         IN [h |-> rr.h, t |-> rr.t, exists |-> FALSE,
             rots |-> Append(rots, <<r, t, rr.t>>), nullDeref |-> FALSE]
    ELSE [h |-> h, t |-> t, exists |-> FALSE, rots |-> rots, nullDeref |-> FALSE]

\* The rebalancing step of addR at t: a rotation when the cached child heights
\* differ by more than one and balancing is on.  rots lists the rotations
\* performed, innermost first, each as <<case, node rotated at, node that took
\* its place>>; nullDeref is set when selecting or performing
\* the rotation dereferences an absent node.
rebalance(h, t, element, bal, rots) ==
    IF Abs(getHeight(h, h[t].left) - getHeight(h, h[t].right)) > 1 /\ bal
    THEN IF ~selectionDerefsOk(h, t, element)
         THEN [h |-> h, t |-> t, exists |-> FALSE, rots |-> rots, nullDeref |-> TRUE]
         ELSE LET r == getNeededRotation(h, t, element)
              IN IF ~rotationDerefsOk(h, t, r)
                 THEN [h |-> h, t |-> t, exists |-> FALSE, rots |-> rots,
                       nullDeref |-> TRUE]
                 ELSE LET rr == rotate(h, t, r)
                      IN [h |-> rr.h, t |-> rr.t, exists |-> FALSE,
                          rots |-> Append(rots, <<r, t, rr.t>>), nullDeref |-> FALSE]
    ELSE [h |-> h, t |-> t, exists |-> FALSE, rots |-> rots, nullDeref |-> FALSE]

\* addR without the test for an equal value: an element already present is
\* inserted again, to the right of its equal.
RECURSIVE addR_noEqualTest(_, _, _, _)
addR_noEqualTest(h, t, element, bal) ==
    IF t = Null
    THEN LET c == NewNode(h, Null, Null, element, 0)
         IN [h |-> c.h, t |-> c.p, exists |-> FALSE, rots |-> <<>>, nullDeref |-> FALSE]
    ELSE LET r == IF element < h[t].value
                  THEN addR_noEqualTest(h, h[t].left, element, bal)
                  ELSE addR_noEqualTest(h, h[t].right, element, bal)
             h1 == IF element < h[t].value
                   THEN [r.h EXCEPT ![t].left = r.t]
                   ELSE [r.h EXCEPT ![t].right = r.t]
         IN IF r.nullDeref
            THEN [h |-> r.h, t |-> t, exists |-> r.exists, rots |-> r.rots,
                  nullDeref |-> TRUE]
            ELSE rebalance(updateHeight(h1, t), t, element, bal, r.rots)

\* addR(t, element, exists) with balancing flag bal: the new heap, the
\* subtree's new root and the out-parameter exists.
RECURSIVE addR(_, _, _, _)
addR(h, t, element, bal) ==
    IF t = Null
    THEN LET c == NewNode(h, Null, Null, element, 0)
         IN [h |-> c.h, t |-> c.p, exists |-> FALSE, rots |-> <<>>, nullDeref |-> FALSE]
    ELSE IF h[t].value = element
    THEN [h |-> h, t |-> t, exists |-> TRUE, rots |-> <<>>, nullDeref |-> FALSE]
    ELSE LET r == IF element < h[t].value
                  THEN addR(h, h[t].left, element, bal)
                  ELSE addR(h, h[t].right, element, bal)
             h1 == IF element < h[t].value
                   THEN [r.h EXCEPT ![t].left = r.t]
                   ELSE [r.h EXCEPT ![t].right = r.t]
         IN IF r.nullDeref
            THEN [h |-> r.h, t |-> t, exists |-> r.exists, rots |-> r.rots,
                  nullDeref |-> TRUE]
            ELSE IF r.exists
            THEN [h |-> h1, t |-> t, exists |-> TRUE, rots |-> r.rots,
                  nullDeref |-> FALSE]
            ELSE rebalance(updateHeight(h1, t), t, element, bal, r.rots)

\* --------------------------------------------------------------- queries
\* The loop of contains descending to the wrong side.
RECURSIVE containsFrom_wrongSide(_, _, _)
containsFrom_wrongSide(h, cur, element) ==
    IF cur = Null THEN FALSE
    ELSE IF h[cur].value = element THEN TRUE
    ELSE IF element > h[cur].value THEN containsFrom_wrongSide(h, h[cur].left, element)
    ELSE containsFrom_wrongSide(h, h[cur].right, element)

\* contains(element) on the tree rooted at cur: the loop of contains.
RECURSIVE containsFrom(_, _, _)
containsFrom(h, cur, element) ==
    IF cur = Null THEN FALSE
    ELSE IF h[cur].value = element THEN TRUE
    ELSE IF element > h[cur].value THEN containsFrom(h, h[cur].right, element)
    ELSE containsFrom(h, h[cur].left, element)

contains(s, element) == containsFrom(heap, _root[s], element)

\* size()
size(s) == _sz[s]

\* height()
height(s) == getHeight(heap, _root[s])

\* ------------------------------------------------------------ traversals
\* preorderR descending into the right subtree before the left one.
RECURSIVE preorderR_rightFirst(_, _)
preorderR_rightFirst(h, t) ==
    <<h[t].value>>
    \o (IF h[t].right # Null THEN preorderR_rightFirst(h, h[t].right) ELSE <<>>)
    \o (IF h[t].left # Null THEN preorderR_rightFirst(h, h[t].left) ELSE <<>>)

\* preorderR(visit, t): the sequence of values handed to visit; t is
\* dereferenced without a test.
RECURSIVE preorderR(_, _)
preorderR(h, t) ==
    <<h[t].value>>
    \o (IF h[t].left # Null THEN preorderR(h, h[t].left) ELSE <<>>)
    \o (IF h[t].right # Null THEN preorderR(h, h[t].right) ELSE <<>>)

RECURSIVE inorderR(_, _)
inorderR(h, t) ==
    IF t # Null
    THEN inorderR(h, h[t].left) \o <<h[t].value>> \o inorderR(h, h[t].right)
    ELSE <<>>

RECURSIVE postorderR(_, _)
postorderR(h, t) ==
    (IF h[t].left # Null THEN postorderR(h, h[t].left) ELSE <<>>)
    \o (IF h[t].right # Null THEN postorderR(h, h[t].right) ELSE <<>>)
    \o <<h[t].value>>

\* ----------------------------------------------------------------- state
NoOp == [op |-> "init", d |-> NoSet, s |-> NoSet, v |-> 0, exists |-> FALSE,
         rots |-> <<>>, freed |-> {}, out |-> <<>>]

InitWith(c) ==
    /\ heap = [n \in Nodes |-> FreeCell]
    /\ cap = c
    /\ alive = [s \in Sets |-> FALSE]
    /\ _root = [s \in Sets |-> Null]
    /\ _sz = [s \in Sets |-> 0]
    /\ _shouldBalance = [s \in Sets |-> FALSE]
    /\ fault = "none"
    /\ lastOp = NoOp
    /\ added = [s \in Sets |-> {}]

\* AVLSet(bool shouldBalance)
Construct(s, shouldBalance) ==
    /\ fault = "none"
    /\ ~alive[s]
    /\ alive' = [alive EXCEPT ![s] = TRUE]
    /\ _root' = [_root EXCEPT ![s] = Null]
    /\ _sz' = [_sz EXCEPT ![s] = 0]
    /\ _shouldBalance' = [_shouldBalance EXCEPT ![s] = shouldBalance]
    /\ lastOp' = [NoOp EXCEPT !.op = "construct", !.d = s]
    /\ added' = [added EXCEPT ![s] = {}]
    /\ UNCHANGED <<heap, cap, fault>>

\* The size update without the test of exists.
sizeAfterAdd_always(sz, exists) == sz + 1

\* The size update of add: ++_sz unless addR reported the element as present.
sizeAfterAdd(sz, exists) == IF ~exists THEN sz + 1 ELSE sz

\* add(element)
Add(s, element) ==
    /\ fault = "none"
    /\ alive[s]
    /\ Room(heap, cap) >= 1
    /\ LET r == addR(heap, _root[s], element, _shouldBalance[s])
       IN /\ heap' = r.h
          /\ fault' = IF r.nullDeref THEN "nullDeref" ELSE "none"
          /\ _root' = [_root EXCEPT ![s] = IF r.nullDeref THEN @ ELSE r.t]
          /\ _sz' = [_sz EXCEPT ![s] = IF r.nullDeref THEN @ ELSE sizeAfterAdd(@, r.exists)]
          /\ lastOp' = [NoOp EXCEPT !.op = "add", !.d = s, !.v = element,
                                    !.exists = r.exists, !.rots = r.rots]
    /\ added' = [added EXCEPT ![s] = @ \cup {element}]
    /\ UNCHANGED <<cap, alive, _shouldBalance>>

\* ~AVLSet()
Destroy(s) ==
    /\ fault = "none"
    /\ alive[s]
    /\ heap' = deleteTree(heap, _root[s])
    /\ alive' = [alive EXCEPT ![s] = FALSE]
    /\ _root' = [_root EXCEPT ![s] = Null]
    /\ _sz' = [_sz EXCEPT ![s] = 0]
    /\ _shouldBalance' = [_shouldBalance EXCEPT ![s] = FALSE]
    /\ lastOp' = [NoOp EXCEPT !.op = "destroy", !.d = s, !.freed = Reach(heap, _root[s])]
    /\ added' = [added EXCEPT ![s] = {}]
    /\ UNCHANGED <<cap, fault>>

\* AVLSet(const AVLSet& s): d is the new instance.
CopyConstruct(d, s) ==
    /\ fault = "none"
    /\ ~alive[d]
    /\ alive[s]
    /\ Cardinality(Reach(heap, _root[s])) <= Room(heap, cap)
    /\ LET c == copyTree(heap, _root[s])
       IN /\ heap' = c.h
          /\ _root' = [_root EXCEPT ![d] = c.p]
    /\ alive' = [alive EXCEPT ![d] = TRUE]
    /\ _sz' = [_sz EXCEPT ![d] = _sz[s]]
    /\ _shouldBalance' = [_shouldBalance EXCEPT ![d] = _shouldBalance[s]]
    /\ lastOp' = [NoOp EXCEPT !.op = "copyConstruct", !.d = d, !.s = s]
    /\ added' = [added EXCEPT ![d] = added[s]]
    /\ UNCHANGED <<cap, fault>>

\* A move constructor that takes the tree and the size and starts balancing.
MoveConstruct_balancingOn(d, s) ==
    /\ fault = "none"
    /\ ~alive[d]
    /\ alive[s]
    /\ alive' = [alive EXCEPT ![d] = TRUE]
    /\ _root' = [_root EXCEPT ![d] = _root[s], ![s] = Null]
    /\ _sz' = [_sz EXCEPT ![d] = _sz[s], ![s] = 0]
    /\ _shouldBalance' = [_shouldBalance EXCEPT ![d] = TRUE, ![s] = FALSE]
    /\ lastOp' = [NoOp EXCEPT !.op = "moveConstruct", !.d = d, !.s = s]
    /\ added' = [added EXCEPT ![d] = added[s], ![s] = {}]
    /\ UNCHANGED <<heap, cap, fault>>

\* AVLSet(AVLSet&& s): d starts as (nullptr, 0, false) and the three fields
\* are swapped with those of s.
MoveConstruct(d, s) ==
    /\ fault = "none"
    /\ ~alive[d]
    /\ alive[s]
    /\ alive' = [alive EXCEPT ![d] = TRUE]
    /\ _root' = [_root EXCEPT ![d] = _root[s], ![s] = Null]
    /\ _sz' = [_sz EXCEPT ![d] = _sz[s], ![s] = 0]
    /\ _shouldBalance' = [_shouldBalance EXCEPT ![d] = _shouldBalance[s], ![s] = FALSE]
    /\ lastOp' = [NoOp EXCEPT !.op = "moveConstruct", !.d = d, !.s = s]
    /\ added' = [added EXCEPT ![d] = added[s], ![s] = {}]
    /\ UNCHANGED <<heap, cap, fault>>

\* copyTree(t) run on a subtree whose nodes were deleted, in a build where the
\* deleted cells still hold what they held (stale) and the copy's nodes are
\* laid out in h.
RECURSIVE copyTreeStale(_, _, _)
copyTreeStale(stale, h, t) ==
    IF t = Null THEN [h |-> h, p |-> Null]
    ELSE LET c == NewNode(h, Null, Null, stale[t].value, stale[t].height)
             l == copyTreeStale(stale, c.h, stale[t].left)
             hl == [l.h EXCEPT ![c.p].left = l.p]
             r == copyTreeStale(stale, hl, stale[t].right)
         IN [h |-> [r.h EXCEPT ![c.p].right = r.p], p |-> c.p]

\* operator=(const AVLSet& s) on d.  With d and s the same non-empty instance
\* copyTree reads the nodes deleteTree has just deleted: the run either stops
\* there with _root dangling, or goes on over the stale cells.
CopyAssign(d, s) ==
    /\ fault = "none"
    /\ alive[d]
    /\ alive[s]
    /\ LET hd == deleteTree(heap, _root[d])
       IN /\ Cardinality(Reach(heap, _root[s])) <= Room(hd, cap)
          /\ IF d = s /\ _root[s] # Null
             THEN /\ fault' = "useAfterFree"
                  /\ \/ /\ heap' = hd
                        /\ UNCHANGED _root
                     \/ LET c == copyTreeStale(heap, hd, _root[s])
                        IN /\ heap' = c.h
                           /\ _root' = [_root EXCEPT ![d] = c.p]
             ELSE /\ LET c == copyTree(hd, _root[s])
                     IN /\ heap' = c.h
                        /\ _root' = [_root EXCEPT ![d] = c.p]
                  /\ UNCHANGED <<cap, fault>>
    /\ _sz' = [_sz EXCEPT ![d] = _sz[s]]
    /\ _shouldBalance' = [_shouldBalance EXCEPT ![d] = _shouldBalance[s]]
    /\ lastOp' = [NoOp EXCEPT !.op = "copyAssign", !.d = d, !.s = s,
                              !.freed = Reach(heap, _root[d])]
    /\ added' = [added EXCEPT ![d] = added[s]]
    /\ UNCHANGED <<cap, alive>>

\* A move assignment that swaps _root and _sz and leaves the flags in place.
MoveAssign_keepsFlags(d, s) ==
    /\ fault = "none"
    /\ alive[d]
    /\ alive[s]
    /\ _root' = [_root EXCEPT ![d] = _root[s], ![s] = _root[d]]
    /\ _sz' = [_sz EXCEPT ![d] = _sz[s], ![s] = _sz[d]]
    /\ lastOp' = [NoOp EXCEPT !.op = "moveAssign", !.d = d, !.s = s]
    /\ added' = [added EXCEPT ![d] = added[s], ![s] = added[d]]
    /\ UNCHANGED <<heap, cap, alive, fault, _shouldBalance>>

\* operator=(AVLSet&& s) on d: the three fields are swapped.
MoveAssign(d, s) ==
    /\ fault = "none"
    /\ alive[d]
    /\ alive[s]
    /\ _root' = [_root EXCEPT ![d] = _root[s], ![s] = _root[d]]
    /\ _sz' = [_sz EXCEPT ![d] = _sz[s], ![s] = _sz[d]]
    /\ _shouldBalance' = [_shouldBalance EXCEPT ![d] = _shouldBalance[s],
                                                ![s] = _shouldBalance[d]]
    /\ lastOp' = [NoOp EXCEPT !.op = "moveAssign", !.d = d, !.s = s]
    /\ added' = [added EXCEPT ![d] = added[s], ![s] = added[d]]
    /\ UNCHANGED <<heap, cap, alive, fault>>

\* preorder(visit): preorderR dereferences _root without testing it; on an
\* empty set that is a read through nullptr, and visit is handed a reference
\* into it before the run stops (out <<0>>), unless it stops first (out <<>>).
Preorder(s) ==
    /\ fault = "none"
    /\ alive[s]
    /\ IF _root[s] = Null
       THEN /\ fault' = "nullDeref"
            /\ \E o \in {<<>>, <<0>>} :
                  lastOp' = [NoOp EXCEPT !.op = "preorder", !.d = s, !.out = o]
       ELSE /\ lastOp' = [NoOp EXCEPT !.op = "preorder", !.d = s,
                                      !.out = preorderR(heap, _root[s])]
            /\ UNCHANGED <<cap, fault>>
    /\ UNCHANGED <<heap, cap, alive, _root, _sz, _shouldBalance, added>>

\* inorder(visit)
Inorder(s) ==
    /\ fault = "none"
    /\ alive[s]
    /\ lastOp' = [NoOp EXCEPT !.op = "inorder", !.d = s, !.out = inorderR(heap, _root[s])]
    /\ UNCHANGED <<heap, cap, alive, _root, _sz, _shouldBalance, fault, added>>

\* postorder(visit): postorderR dereferences _root without testing it; on an
\* empty set the read of t->left through nullptr stops the run before visit
\* is reached, or visit is still handed a reference (out <<0>>).
Postorder(s) ==
    /\ fault = "none"
    /\ alive[s]
    /\ IF _root[s] = Null
       THEN /\ fault' = "nullDeref"
            /\ \E o \in {<<>>, <<0>>} :
                  lastOp' = [NoOp EXCEPT !.op = "postorder", !.d = s, !.out = o]
       ELSE /\ lastOp' = [NoOp EXCEPT !.op = "postorder", !.d = s,
                                      !.out = postorderR(heap, _root[s])]
            /\ UNCHANGED <<cap, fault>>
    /\ UNCHANGED <<heap, cap, alive, _root, _sz, _shouldBalance, added>>

\* The lifecycle specification: every operation, on two instances.
Next ==
    \/ \E s \in Sets, b \in BOOLEAN : Construct(s, b)
    \/ \E s \in Sets, v \in Values : Add(s, v)
    \/ \E s \in Sets : Destroy(s)
    \/ \E d \in Sets, s \in Sets : CopyConstruct(d, s)
    \/ \E d \in Sets, s \in Sets : MoveConstruct(d, s)
    \/ \E d \in Sets, s \in Sets : CopyAssign(d, s)
    \/ \E d \in Sets, s \in Sets : MoveAssign(d, s)
    \/ \E s \in Sets : Preorder(s)
    \/ \E s \in Sets : Inorder(s)
    \/ \E s \in Sets : Postorder(s)

Init == InitWith(MaxLive)

Spec == Init /\ [][Next]_vars

\* The specification of rotations on copied, moved and assigned sets: two
\* instances of either balancing mode with three values, the constructors
\* building "b" from "a", and the assignments between the two in both
\* directions.
NextRot ==
    \/ \E s \in Sets, b \in BOOLEAN : Construct(s, b)
    \/ \E s \in Sets, v \in RotValues : Add(s, v)
    \/ \E s \in Sets : Destroy(s)
    \/ CopyConstruct("b", "a")
    \/ MoveConstruct("b", "a")
    \/ \E d \in Sets : \E s \in Sets \ {d} : CopyAssign(d, s)
    \/ \E d \in Sets : \E s \in Sets \ {d} : MoveAssign(d, s)

InitRot == InitWith(MaxRotLive)

RotSpec == InitRot /\ [][NextRot]_vars

\* The insertion-only specification: one instance, built by AVLSet(bool), to
\* which only add is applied (and the traversals, which change nothing).
NextAdd ==
    \/ \E b \in BOOLEAN : Construct("a", b)
    \/ \E v \in Keys : Add("a", v)
    \/ Preorder("a")
    \/ Inorder("a")
    \/ Postorder("a")

InitAdd == InitWith(HeapSize)

AddSpec == InitAdd /\ [][NextAdd]_vars

\* ------------------------------------------------- what the claims speak of
\* The values stored in the subtree of t.
ValuesOf(h, t) == {h[n].value : n \in Reach(h, t)}

\* The true height of the subtree of t: -1 when absent, 0 for a leaf.
RECURSIVE TrueHeight(_, _)
TrueHeight(h, t) ==
    IF t = Null THEN -1
    ELSE 1 + Max(TrueHeight(h, h[t].left), TrueHeight(h, h[t].right))

\* Binary-search-tree order at every node of the subtree of t.
IsBST(h, t) ==
    \A n \in Reach(h, t) :
        /\ \A w \in ValuesOf(h, h[n].left) : w < h[n].value
        /\ \A w \in ValuesOf(h, h[n].right) : w > h[n].value

\* |height(left) - height(right)| <= 1 at every node of the subtree of t, with
\* the true subtree heights.
IsBalanced(h, t) ==
    \A n \in Reach(h, t) :
        Abs(TrueHeight(h, h[n].left) - TrueHeight(h, h[n].right)) <= 1

StrictlyIncreasing(q) == \A i \in 1..(Len(q) - 1) : q[i] < q[i + 1]

Range(q) == {q[i] : i \in 1..Len(q)}

Traversals == {"preorder", "inorder", "postorder"}

\* C1: after any sequence of add calls, with balancing on or off, an inorder
\* traversal visits a strictly increasing sequence whose elements are exactly
\* the distinct values added, and binary-search-tree order holds at every node
\* (so no value is lost or duplicated, also across rotations).
C1_InorderSortedDistinct ==
    /\ \A s \in Sets : alive[s] =>
          LET q == inorderR(heap, _root[s])
          IN /\ StrictlyIncreasing(q)
             /\ Range(q) = added[s]
             /\ Len(q) = Cardinality(added[s])
             /\ IsBST(heap, _root[s])
    /\ lastOp.op = "inorder" =>
          /\ StrictlyIncreasing(lastOp.out)
          /\ Range(lastOp.out) = added[lastOp.d]

\* C1 witness: inorder has visited five values of a tree that was rotated into
\* shape (its root is not the first value added, which sits in cell 1).
C1_Witness ==
    /\ lastOp.op = "inorder"
    /\ Len(lastOp.out) >= 5
    /\ _shouldBalance[lastOp.d]
    /\ _root[lastOp.d] # 1

\* C2: for a set constructed with balancing enabled, after every add of any
\* sequence of adds every node has |height(left) - height(right)| <= 1, the
\* heights being the true subtree heights and an absent subtree having -1.
C2_BalancedAfterEveryAdd ==
    \A s \in Sets : (alive[s] /\ _shouldBalance[s]) => IsBalanced(heap, _root[s])

\* C2 witness: an add into a balanced set of at least five values has just
\* performed a double rotation.
C2_Witness ==
    /\ lastOp.op = "add"
    /\ _shouldBalance[lastOp.d]
    /\ _sz[lastOp.d] >= 5
    /\ \E i \in 1..Len(lastOp.rots) : lastOp.rots[i][1] \in {"LR", "RL"}

\* C3 (state part): size() is the number of distinct elements passed to add.
C3_SizeIsDistinctCount ==
    \A s \in Sets : alive[s] => size(s) = Cardinality(added[s])

\* C3 (step part): an add of a value already present leaves size() unchanged
\* and an add of a new value increases it by exactly 1.
C3_AddStep ==
    \A s \in Sets : (lastOp'.op = "add" /\ lastOp'.d = s) =>
        size(s)' = IF lastOp'.v \in added[s] THEN size(s) ELSE size(s) + 1

\* C3: after any sequence of add calls size() equals the number of distinct
\* elements passed to add so far; re-adding leaves it unchanged, a new value
\* raises it by exactly 1.
C3_SizeCorrect == [](C3_SizeIsDistinctCount) /\ [][C3_AddStep]_vars

\* C3 witness: an add of a value already present has just returned on a set of
\* at least three values.
C3_Witness ==
    /\ lastOp.op = "add"
    /\ lastOp.exists
    /\ size(lastOp.d) >= 3

\* C4: after any sequence of add calls, with balancing on or off, contains(v)
\* is true exactly for the values passed to an earlier add, also after
\* rotations have relinked the tree.
C4_ContainsIffAdded ==
    \A s \in Sets : alive[s] =>
        \A v \in 0..(MaxKey + 1) : contains(s, v) <=> v \in added[s]

\* C4 witness: a rotation has just relinked a tree of at least four values, and
\* contains answers true for some values and false for others.
C4_Witness ==
    /\ lastOp.op = "add"
    /\ lastOp.rots # <<>>
    /\ size(lastOp.d) >= 4
    /\ \E v \in Keys : contains(lastOp.d, v)
    /\ \E v \in Keys : ~contains(lastOp.d, v)

\* The values of s were added in strictly ascending order.  Under AddSpec
\* nothing is deleted and new Node hands out the cells in the order 1, 2, ...,
\* so the node in cell k holds the k-th distinct value added.
AddedAscending(s) ==
    \A n \in Reach(heap, _root[s]), m \in Reach(heap, _root[s]) :
        n < m => heap[n].value < heap[m].value

\* C10: for a set constructed with balancing disabled, adding n >= 1 values in
\* strictly ascending order yields height() = n - 1 after the n-th insertion,
\* and no add on it ever performs a rotation.
C10_AscendingChain ==
    \A s \in Sets : (alive[s] /\ ~_shouldBalance[s]) =>
        /\ (AddedAscending(s) /\ added[s] # {}) => height(s) = Cardinality(added[s]) - 1
        /\ (lastOp.op = "add" /\ lastOp.d = s) => lastOp.rots = <<>>

\* C10 witness: 1, 2, 3 and more were added in ascending order with balancing
\* off; the height is one less than the number of values.
C10_Witness ==
    /\ lastOp.op = "add"
    /\ ~_shouldBalance[lastOp.d]
    /\ AddedAscending(lastOp.d)
    /\ {1, 2, 3} \subseteq added[lastOp.d]
    /\ height(lastOp.d) = Cardinality(added[lastOp.d]) - 1
    /\ height(lastOp.d) >= 2

\* The subtree of t as a value: shape, values and cached heights, without the
\* cells it lies in.
RECURSIVE TreeOf(_, _)
TreeOf(h, t) ==
    IF t = Null THEN <<>>
    ELSE <<TreeOf(h, h[t].left), h[t].value, h[t].height, TreeOf(h, h[t].right)>>

\* What a caller can observe of s: every contains result, size() and height().
Observable(s) ==
    [has |-> {v \in 0..(MaxVal + 1) : contains(s, v)}, size |-> size(s),
     height |-> height(s)]

\* C5: on an empty set (fresh, or emptied by a move) preorder, inorder and
\* postorder complete normally, invoke the visitor zero times and dereference
\* no absent node.
C5_EmptyTraversalSafe ==
    (lastOp.op \in Traversals /\ _root[lastOp.d] = Null) =>
        (fault = "none" /\ lastOp.out = <<>>)

\* C6: after a populated set is moved into another set, by move construction
\* or move assignment and whatever the destination held before, the source is
\* empty: root absent, size() = 0, height() = -1.  (The destination holds the
\* moved graph, so the source was populated exactly if the destination is.)
C6_MoveEmptiesSource ==
    (/\ lastOp.op \in {"moveConstruct", "moveAssign"}
     /\ lastOp.d # lastOp.s
     /\ _root[lastOp.d] # Null) =>
        (/\ _root[lastOp.s] = Null
         /\ size(lastOp.s) = 0
         /\ height(lastOp.s) = -1)

\* C7 (state part): right after a copy between two distinct instances the copy
\* has the values, shape, heights and size of the source and no node in common
\* with it.
C7_CopyIsDeep ==
    (lastOp.op \in {"copyConstruct", "copyAssign"} /\ lastOp.d # lastOp.s) =>
        (/\ TreeOf(heap, _root[lastOp.d]) = TreeOf(heap, _root[lastOp.s])
         /\ size(lastOp.d) = size(lastOp.s)
         /\ Reach(heap, _root[lastOp.d]) \cap Reach(heap, _root[lastOp.s]) = {}
         /\ \A n \in Reach(heap, _root[lastOp.d]) : heap[n].live)

\* C7 (step part): an add on one instance leaves every contains result, size()
\* and height() of the other instance unchanged.
C7_AddLeavesOtherAlone ==
    \A x \in Sets, y \in Sets :
        (lastOp'.op = "add" /\ lastOp'.d = x /\ y # x /\ alive[y]) =>
            Observable(y)' = Observable(y)

C8_AssignReleasesOld ==
    [][\A d \in Sets :
          (/\ lastOp'.op \in {"copyAssign", "moveAssign"}
           /\ lastOp'.d = d
           /\ lastOp'.s # d) =>
              Reach(heap, _root[d]) \subseteq lastOp'.freed]_vars

\* C9 as claimed: no operation changes the balancing flag of a constructed
\* instance.
C9_FlagFixed ==
    [][\A x \in Sets : (alive[x] /\ alive'[x]) =>
          _shouldBalance'[x] = _shouldBalance[x]]_vars

\* The flag of x after a step, as the code sets it.
C9_FlagStep ==
    \A x \in Sets :
        /\ (alive[x] /\ alive'[x]) =>
              _shouldBalance'[x] =
                 CASE lastOp'.op \in {"copyAssign", "moveAssign"} /\ lastOp'.d = x
                        -> _shouldBalance[lastOp'.s]
                   [] lastOp'.op = "moveAssign" /\ lastOp'.s = x
                        -> _shouldBalance[lastOp'.d]
                   [] lastOp'.op = "moveConstruct" /\ lastOp'.s = x
                        -> FALSE
                   [] OTHER -> _shouldBalance[x]
        /\ (~alive[x] /\ alive'[x] /\ lastOp'.op \in {"copyConstruct", "moveConstruct"}) =>
              _shouldBalance'[x] = _shouldBalance[lastOp'.s]

\* C9 as amended: add, the traversals and being copied from never change the
\* balancing flag; copy assignment gives the destination the source's flag,
\* move assignment exchanges the two flags, copy and move construction give
\* the new instance the source's flag, and move construction leaves the source
\* with balancing disabled.
C9_FlagChangesOnlyByAssignOrMove == [][C9_FlagStep]_vars

\* C9 witness: a set with balancing enabled has just been moved from by move
\* construction; the new instance balances and the source no longer does.
C9_Witness ==
    /\ lastOp.op = "moveConstruct"
    /\ _shouldBalance[lastOp.d]
    /\ ~_shouldBalance[lastOp.s]
    /\ _root[lastOp.d] # Null

\* The place of value w in the visit sequence q (0 when it is not visited).
PosIn(q, w) == IF \E i \in 1..Len(q) : q[i] = w
               THEN CHOOSE i \in 1..Len(q) : q[i] = w
               ELSE 0

\* q visits every stored element of the subtree of t exactly once.
VisitsEachOnce(q, h, t) ==
    /\ Len(q) = Cardinality(Reach(h, t))
    /\ Range(q) = ValuesOf(h, t)
    /\ \A i \in 1..Len(q), j \in 1..Len(q) : q[i] = q[j] => i = j

\* C11 (state part): on a non-empty set preorder and postorder each visit every
\* stored element exactly once; preorder visits a node before every node of
\* its left subtree and those before every node of its right subtree;
\* postorder visits a node after every node of its left and right subtrees.
C11_VisitOrder ==
    (lastOp.op \in {"preorder", "postorder"} /\ _root[lastOp.d] # Null) =>
        LET q == lastOp.out
            t == _root[lastOp.d]
        IN /\ fault = "none"
           /\ VisitsEachOnce(q, heap, t)
           /\ \A n \in Reach(heap, t) :
                 LET here == PosIn(q, heap[n].value)
                     ls == {PosIn(q, w) : w \in ValuesOf(heap, heap[n].left)}
                     rs == {PosIn(q, w) : w \in ValuesOf(heap, heap[n].right)}
                 IN IF lastOp.op = "preorder"
                    THEN /\ \A i \in ls \cup rs : here < i
                         /\ \A i \in ls, j \in rs : i < j
                    ELSE \A i \in ls \cup rs : i < here

\* C11 (step part): no traversal changes the structure, the cached heights or
\* the size of any set.
C11_ReadOnly ==
    lastOp'.op \in Traversals =>
        (heap' = heap /\ _root' = _root /\ _sz' = _sz /\ _shouldBalance' = _shouldBalance)

\* C11: on any non-empty set preorder and postorder invoke the visitor exactly
\* once per stored element, preorder node-left-right and postorder with every
\* node after its subtrees, and no traversal changes structure, heights or size.
C11_TraversalOrder == [](C11_VisitOrder) /\ [][C11_ReadOnly]_vars

\* C11 witness: preorder has visited a tree of at least five nodes whose root
\* has both a left and a right subtree of more than one node between them.
C11_Witness ==
    /\ lastOp.op = "preorder"
    /\ Len(lastOp.out) >= 5
    /\ heap[_root[lastOp.d]].left # Null
    /\ heap[_root[lastOp.d]].right # Null

\* The cells instance s owns: those its root reaches.
Owned(s) == Reach(heap, _root[s])

\* The number of left/right links of s's graph that point at cell n.
LinksInto(s, n) ==
    Cardinality({m \in Owned(s) : heap[m].left = n})
    + Cardinality({m \in Owned(s) : heap[m].right = n})

\* C12: in any sequence of lifecycle operations, an assignment's source and
\* destination possibly being the same instance, no operation reads, writes or
\* frees a node already freed, and a set copy-assigned to itself keeps its
\* contents.
C12_NoUseAfterFree ==
    /\ fault # "useAfterFree"
    /\ \A s \in Sets : alive[s] => \A n \in Owned(s) : heap[n].live
    /\ (lastOp.op = "copyAssign" /\ lastOp.d = lastOp.s) =>
          /\ Range(inorderR(heap, _root[lastOp.d])) = added[lastOp.d]
          /\ size(lastOp.d) = Cardinality(Owned(lastOp.d))

\* C13: between operations the allocated nodes are partitioned among the live
\* sets: each live set's root reaches exactly size() allocated nodes forming a
\* tree (the root has no parent link, every other node exactly one), no node
\* is reachable from two sets, and no allocated node is unreachable from every
\* live set; with no set alive no node is allocated.
C13_ExclusiveOwnership ==
    /\ \A s \in Sets : alive[s] =>
          /\ \A n \in Owned(s) : heap[n].live
          /\ Cardinality(Owned(s)) = size(s)
          /\ \A n \in Owned(s) : LinksInto(s, n) = IF n = _root[s] THEN 0 ELSE 1
    /\ \A s \in Sets, u \in Sets :
          (alive[s] /\ alive[u] /\ s # u) => Owned(s) \cap Owned(u) = {}
    /\ \A n \in Nodes :
          heap[n].live => \E s \in Sets : alive[s] /\ n \in Owned(s)

\* The ownership invariant of C13 in the states no use of a freed node led to.
C13_OwnershipWithoutUseAfterFree ==
    fault # "useAfterFree" => C13_ExclusiveOwnership

\* C14: after any sequence of add calls, with balancing on or off, every
\* node's cached height is 1 + max of its children's cached heights (absent:
\* -1) and is the true height of its subtree, and height() is the true height
\* of the whole tree (-1 when empty).
C14_CachedHeightIsTrueHeight ==
    \A s \in Sets : alive[s] =>
        /\ \A n \in Owned(s) :
              /\ heap[n].height = 1 + Max(getHeight(heap, heap[n].left),
                                          getHeight(heap, heap[n].right))
              /\ heap[n].height = TrueHeight(heap, n)
        /\ height(s) = TrueHeight(heap, _root[s])

\* C14 witness: a new value has just been added below a node whose other
\* subtree is at least as high, in a tree of height 3 or more: an ancestor's
\* cached height had to stay as it was.
C14_Witness ==
    /\ lastOp.op = "add"
    /\ ~lastOp.exists
    /\ height(lastOp.d) >= 3
    /\ size(lastOp.d) > height(lastOp.d) + 1

\* The nodes add visits in the subtree of t on its way to element.
RECURSIVE PathTo(_, _, _)
PathTo(h, t, element) ==
    IF t = Null THEN {}
    ELSE IF h[t].value = element THEN {t}
    ELSE {t} \cup PathTo(h, IF element < h[t].value THEN h[t].left ELSE h[t].right,
                         element)

\* The nodes among P whose true child heights differ by more than 1.
Unbalanced(h, P) ==
    {n \in P : Abs(TrueHeight(h, h[n].left) - TrueHeight(h, h[n].right)) > 1}

\* C15 (step part): an add on a balancing set performs at most one rotation,
\* and one exactly when the plain insertion leaves an ancestor of the new leaf
\* unbalanced; it is applied at the unbalanced ancestor closest to the leaf
\* (every unbalanced ancestor is that node or an ancestor of it); the subtree
\* put in its place has the height the rotated node's subtree had before the
\* insertion, and no node of the tree is unbalanced afterwards.
C15_AddStep ==
    \A s \in Sets :
        (lastOp'.op = "add" /\ lastOp'.d = s /\ _shouldBalance[s]) =>
            \A plain \in {addR(heap, _root[s], lastOp'.v, FALSE)} :
            \A U \in {IF plain.exists THEN {}
                      ELSE Unbalanced(plain.h, PathTo(plain.h, plain.t, lastOp'.v))} :
            LET rots == lastOp'.rots
            IN /\ Len(rots) <= 1
               /\ (Len(rots) = 1) <=> (U # {})
               /\ Len(rots) = 1 =>
                     /\ rots[1][2] \in U
                     /\ \A u \in U : rots[1][2] \in Reach(plain.h, u)
                     /\ TrueHeight(heap', rots[1][3]) = TrueHeight(heap, rots[1][2])
               /\ Unbalanced(heap', Reach(heap', _root'[s])) = {}

\* C15 (example): after 1, 2, 3 were added in this order to a balancing set
\* (cells 1, 2, 3 hold them), the add of 3 has performed exactly one rotation,
\* RR at the node of 1, and the tree has height 1 and is rooted at 2.
C15_Example ==
    \A s \in Sets :
        (/\ alive[s] /\ _shouldBalance[s]
         /\ lastOp.op = "add" /\ lastOp.d = s /\ lastOp.v = 3 /\ ~lastOp.exists
         /\ Owned(s) = {1, 2, 3}
         /\ \A n \in {1, 2, 3} : heap[n].value = n) =>
            /\ lastOp.rots = << <<"RR", 1, 2>> >>
            /\ height(s) = 1
            /\ heap[_root[s]].value = 2

\* C15: with balancing enabled every add performs at most one rotation, at the
\* unbalanced ancestor closest to the inserted leaf, which restores the height
\* the subtree had before the insertion, so that no higher ancestor is
\* unbalanced or rotated; adding 1, 2, 3 rotates once, RR, on the add of 3.
C15_OneRotationPerAdd == [](C15_Example) /\ [][C15_AddStep]_vars

\* C15 witness: the add of 3 after 1 and 2 has just rotated RR.
C15_Witness ==
    /\ lastOp.op = "add"
    /\ lastOp.v = 3
    /\ lastOp.rots = << <<"RR", 1, 2>> >>
    /\ added[lastOp.d] = {1, 2, 3}
    /\ heap[_root[lastOp.d]].value = 2

\* The imbalance shape at t by the true heights of its subtrees: which child
\* is the taller one and which of that child's subtrees is the taller one.
Shape(h, t) ==
    LET l == h[t].left
        r == h[t].right
    IN IF TrueHeight(h, l) > TrueHeight(h, r)
       THEN IF TrueHeight(h, h[l].left) > TrueHeight(h, h[l].right) THEN "LL"
            ELSE IF TrueHeight(h, h[l].left) < TrueHeight(h, h[l].right) THEN "LR"
            ELSE "none"
       ELSE IF TrueHeight(h, l) < TrueHeight(h, r)
       THEN IF TrueHeight(h, h[r].right) > TrueHeight(h, h[r].left) THEN "RR"
            ELSE IF TrueHeight(h, h[r].right) < TrueHeight(h, h[r].left) THEN "RL"
            ELSE "none"
       ELSE "none"

\* C16 (state part): a live set whose balancing flag is on holds a balanced
\* search tree with true cached heights, however it got its tree and its flag.
C16_BalancingSetsAreAVL ==
    \A s \in Sets :
        (alive[s] /\ _shouldBalance[s] /\ fault = "none") =>
            /\ IsBST(heap, _root[s])
            /\ IsBalanced(heap, _root[s])
            /\ \A n \in Owned(s) : heap[n].height = TrueHeight(heap, n)

\* C16 (step part): on an add to a set whose flag is on, at the first node on
\* the way back up whose cached child heights differ by more than 1 the heavier
\* child is the one inserted into, the selected case is the actual shape of
\* the imbalance, the nodes that rotation dereferences are present, it is the
\* rotation performed, and the add dereferences no absent node.
C16_AddStep ==
    \A s \in Sets :
        (lastOp'.op = "add" /\ lastOp'.d = s /\ _shouldBalance[s]) =>
            \A element \in {lastOp'.v} :
            \A plain \in {addR(heap, _root[s], element, FALSE)} :
            \A found \in {IF plain.exists THEN {}
                          ELSE {n \in PathTo(plain.h, plain.t, element) :
                                  Abs(getHeight(plain.h, plain.h[n].left)
                                      - getHeight(plain.h, plain.h[n].right)) > 1}} :
               /\ fault' = "none"
               /\ \A t \in found :
                     (\A u \in found : t \in Reach(plain.h, u)) =>
                        LET l == plain.h[t].left
                            r == plain.h[t].right
                            heavy == IF getHeight(plain.h, l) > getHeight(plain.h, r)
                                     THEN l ELSE r
                            into == IF element < plain.h[t].value THEN l ELSE r
                        IN /\ heavy = into
                           /\ heavy # Null
                           /\ element \in ValuesOf(plain.h, heavy)
                           /\ getNeededRotation(plain.h, t, element) = Shape(plain.h, t)
                           /\ rotationDerefsOk(plain.h, t, Shape(plain.h, t))
                           /\ Len(lastOp'.rots) >= 1
                           /\ lastOp'.rots[1][1] = Shape(plain.h, t)
                           /\ lastOp'.rots[1][2] = t

C17_DuplicateAddStep ==
    \A s \in Sets :
        (lastOp'.op = "add" /\ lastOp'.d = s /\ contains(s, lastOp'.v)) =>
            /\ heap' = heap
            /\ FreeCells(heap') = FreeCells(heap)
            /\ _root' = _root
            /\ _sz' = _sz
            /\ _shouldBalance' = _shouldBalance
            /\ alive' = alive
            /\ fault' = fault
            /\ lastOp'.rots = <<>>
            /\ lastOp'.exists

\* C17: add is idempotent on duplicates in both balancing modes: adding a
\* value already contained leaves nodes, links, cached heights, root and size
\* as they were, allocates nothing and rotates nothing.
C17_DuplicateAddChangesNothing == [][C17_DuplicateAddStep]_vars

\* C17 witness: a value present in a tree of height 2 has just been added again.
C17_Witness ==
    /\ lastOp.op = "add"
    /\ lastOp.exists
    /\ lastOp.v \in ValuesOf(heap, _root[lastOp.d])
    /\ height(lastOp.d) = 2
    /\ _sz[lastOp.d] >= 4

Rotations == {"LL", "LR", "RL", "RR"}

\* The rotation r at t only relinks the nodes of the subtree of t: the same
\* cells are live, every cell keeps its value, cells outside the subtree are
\* untouched, the subtree has the same nodes under its new root, and its
\* values are met in the same left-to-right order, so that a subtree in
\* search-tree order stays in search-tree order.
OnlyRelinks(h, t, r) ==
    \A rr \in {rotate(h, t, r)} : \A sub \in {Reach(h, t)} :
       /\ FreeCells(rr.h) = FreeCells(h)
       /\ \A n \in Nodes : rr.h[n].value = h[n].value
       /\ \A n \in Nodes \ sub : rr.h[n] = h[n]
       /\ Reach(rr.h, rr.t) = sub
       /\ inorderR(rr.h, rr.t) = inorderR(h, t)

\* C18 (rotation part): at every node of every tree an add of a new value has
\* produced (the other operations of the specification leave the trees as
\* they are), each rotation whose dereferenced nodes are present only relinks
\* the subtree's nodes.
C18_RotationsOnlyRelink ==
    (lastOp.op = "add" /\ ~lastOp.exists /\ fault = "none") =>
        \A t \in Owned(lastOp.d) : \A r \in Rotations :
            rotationDerefsOk(heap, t, r) => OnlyRelinks(heap, t, r)

\* C18 (step part): an add frees no cell, allocates exactly one when the value
\* is new and none otherwise, keeps every node it had with its value, and a
\* rotation it performs puts the nodes of the rotated subtree, the new one
\* included, under the subtree's new root.
C18_AddStep ==
    \A s \in Sets :
        (lastOp'.op = "add" /\ lastOp'.d = s) =>
            \A free \in {FreeCells(heap)} :
            \A new \in {free \ FreeCells(heap')} :
               /\ FreeCells(heap') \subseteq free
               /\ Cardinality(new) = IF lastOp'.v \in added[s] THEN 0 ELSE 1
               /\ \A n \in Nodes \ free : heap'[n].value = heap[n].value
               /\ Reach(heap', _root'[s]) = Owned(s) \cup new
               /\ \A i \in 1..Len(lastOp'.rots) :
                     Reach(heap', lastOp'.rots[i][3])
                         = Reach(heap, lastOp'.rots[i][2]) \cup new

\* C18: each rotation only relinks existing nodes (nothing allocated or freed,
\* same nodes and values in the rotated subtree, search-tree order kept), and
\* a whole add allocates exactly one node when the value is new and frees none.
C18_RotationsRelinkAddAllocatesOne ==
    [](C18_RotationsOnlyRelink) /\ [][C18_AddStep]_vars

\* C18 witness: an add has just performed a double rotation at a node whose
\* subtree holds at least four nodes besides the new one.
C18_Witness ==
    /\ lastOp.op = "add"
    /\ ~lastOp.exists
    /\ Len(lastOp.rots) = 1
    /\ lastOp.rots[1][1] \in {"LR", "RL"}
    /\ Cardinality(Reach(heap, lastOp.rots[1][3])) >= 5

====
